---- MODULE Spec2Model ----
(***************************************************************************)
(* EmbreeTracer: the light-transport core of src/src/Renderer.cpp and the  *)
(* pixel loop of src/src/main.cpp.                                         *)
(*                                                                         *)
(* Floats are fixed-point integers.  Colours, directions, distances and    *)
(* random draws are in thousandths (One = 1.0f); ray origins are in units  *)
(* of 1e-5 (PosPerUnit of them per thousandth) so that EPSILON = 0.00003f  *)
(* is the integer 3.  Products and quotients truncate, as float            *)
(* operations round.  A vec3 is a triple <<x, y, z>>.                      *)
(***************************************************************************)
EXTENDS Integers, Sequences, FiniteSets, TLC

(***************************************************************************)
(* Bounds of the model.                                                    *)
(***************************************************************************)
MaxWidth == 2

MaxHeight == 2

NumKeys == 2

(***************************************************************************)
(* Program constants.                                                      *)
(***************************************************************************)
One == 1000

PosPerUnit == 100

PI == 3142

EPSILON == 3

MaxBounces == 8

RTC_INVALID_GEOMETRY_ID == -1

FLT_MAX == 1000000

ShadowTNear == 1

Fov == 311

(***************************************************************************)
(* Scalar and vec3 arithmetic.                                             *)
(***************************************************************************)
Abs(a) == IF a < 0 THEN -a ELSE a

Max(a, b) == IF a > b THEN a ELSE b

Mul(a, b) == (a * b) \div One

Div(a, b) == (a * One) \div b

(* floor(sqrt(n)) by Newton's iteration from above. *)
RECURSIVE ISqrtIter(_, _)
ISqrtIter(n, x) ==
    LET y == (x + (n \div x)) \div 2
    IN  IF y >= x THEN x ELSE ISqrtIter(n, y)

Sqrt(a) == IF a <= 0 THEN 0 ELSE ISqrtIter(a * One, a * One)

VAdd(a, b) == <<a[1] + b[1], a[2] + b[2], a[3] + b[3]>>

VSub(a, b) == <<a[1] - b[1], a[2] - b[2], a[3] - b[3]>>

VMul(a, b) == <<Mul(a[1], b[1]), Mul(a[2], b[2]), Mul(a[3], b[3])>>

VScale(a, s) == <<Mul(a[1], s), Mul(a[2], s), Mul(a[3], s)>>

VDiv(a, s) == <<Div(a[1], s), Div(a[2], s), Div(a[3], s)>>

dot(a, b) == Mul(a[1], b[1]) + Mul(a[2], b[2]) + Mul(a[3], b[3])

cross(a, b) ==
    << Mul(a[2], b[3]) - Mul(a[3], b[2]),
       Mul(a[3], b[1]) - Mul(a[1], b[3]),
       Mul(a[1], b[2]) - Mul(a[2], b[1]) >>

length(a) == Sqrt(dot(a, a))

Zero3 == <<0, 0, 0>>

(* normalize of a zero-length vector divides 0 by 0: every component NaN. *)
IsNaNNormalize(a) == length(a) = 0

normalize(a) == IF length(a) = 0 THEN Zero3 ELSE VDiv(a, length(a))

(***************************************************************************)
(* The random source: std::default_random_engine constructed with its      *)
(* default seed yields one fixed sequence of uniform draws.  gen is the    *)
(* number of draws taken since seeding.                                    *)
(***************************************************************************)
EngineOutput == <<125, 360, 500, 640, 875, 0, 250, 750, 360, 125, 640, 0, 750, 500, 875, 250>>

Uniforms == {0, 125, 250, 360, 500, 640, 750, 875}

SeedEngine_Static(g) == g

SeedEngine(g) == 0

distr(g) == EngineOutput[(g % Len(EngineOutput)) + 1]

(* cos(2*PI*u) and sin(2*PI*u) for the draws u of Uniforms. *)
Cos2Pi(u) ==
    CASE u = 0 -> 1000 [] u = 125 -> 707 [] u = 250 -> 0 [] u = 360 -> -637
      [] u = 500 -> -1000 [] u = 640 -> -637 [] u = 750 -> 0 [] u = 875 -> 707

Sin2Pi(u) ==
    CASE u = 0 -> 0 [] u = 125 -> 707 [] u = 250 -> 1000 [] u = 360 -> 771
      [] u = 500 -> 0 [] u = 640 -> -771 [] u = 750 -> -1000 [] u = 875 -> -707

(***************************************************************************)
(* Trace, lines 36-47: the local frame at the hit and the sampled bounce   *)
(* direction, from the shading normal and the two uniform draws.           *)
(***************************************************************************)
WorldUp == <<0, One, 0>>

WorldRight == <<One, 0, 0>>

FrameAxis_Swapped(w) == IF Abs(w[1]) > 100 THEN WorldRight ELSE WorldUp

FrameAxis(w) == IF Abs(w[1]) > 100 THEN WorldUp ELSE WorldRight

SampleDirection(normal, d1, d2) ==
    LET rand2s == Sqrt(d2)
        w      == normal
        axis   == FrameAxis(w)
        uRaw   == cross(axis, w)
        u      == normalize(uRaw)
        v      == cross(w, u)
        pre    == VAdd(VAdd(VScale(VScale(u, Cos2Pi(d1)), rand2s),
                            VScale(VScale(v, Sin2Pi(d1)), rand2s)),
                       VScale(w, Sqrt(One - d2)))
    IN  [ axis   |-> axis,
          uRaw   |-> uRaw,
          nan    |-> IsNaNNormalize(uRaw) \/ IsNaNNormalize(pre),
          newdir |-> normalize(pre),
          cosine |-> dot(normalize(pre), normal) ]

(***************************************************************************)
(* Rays and the geometry query port.  A committed static scene answers a   *)
(* query as a fixed function of the ray: the ray's origin and direction    *)
(* select one of NumKeys regions and the scene holds one answer for each.  *)
(***************************************************************************)
NoHit == [hit |-> FALSE, geomID |-> RTC_INVALID_GEOMETRY_ID, t |-> 0, normal |-> Zero3]

Hit(id, t, n) == [hit |-> TRUE, geomID |-> id, t |-> t, normal |-> n]

Responses ==
    { NoHit,
      Hit(0, 4500, <<0, 1000, 0>>),
      Hit(1, 500, <<600, 800, 0>>),
      Hit(0, 500, <<0, 0, 1000>>),
      Hit(1, 4500, <<0, -1000, 0>>) }

UncheckedResponses ==
    { NoHit, Hit(0, 4500, <<0, 1000, 0>>), Hit(2, 500, <<600, 800, 0>>) }

Keys == 0 .. (NumKeys - 1)

RayKey(ray) ==
    ( (Abs(ray.org[1]) + Abs(ray.org[2]) + Abs(ray.org[3])) \div (PosPerUnit * 100)
      + (Abs(ray.dir[1]) + Abs(ray.dir[2]) + Abs(ray.dir[3])) \div 100 ) % NumKeys

InRange(sc, ray) ==
    LET r == sc[RayKey(ray)] IN r.hit /\ ray.tnear <= r.t /\ r.t <= ray.tfar

rtcIntersect(sc, ray) ==
    LET r == sc[RayKey(ray)]
    IN  IF InRange(sc, ray)
        THEN [ray EXCEPT !.geomID = r.geomID, !.tfar = r.t, !.interp = r.normal]
        ELSE ray

rtcOccluded(sc, ray) ==
    IF InRange(sc, ray) THEN [ray EXCEPT !.geomID = 0] ELSE ray

rtcInterpolate2(ray) == ray.interp

ToPos(v) == <<v[1] * PosPerUnit, v[2] * PosPerUnit, v[3] * PosPerUnit>>

FromPos(p) == <<p[1] \div PosPerUnit, p[2] \div PosPerUnit, p[3] \div PosPerUnit>>

(* org + tfar * dir, the point the ray reached, in origin units. *)
PointAt(ray) == VAdd(ray.org, ToPos(VScale(ray.dir, ray.tfar)))

NoRay ==
    [ org |-> Zero3, dir |-> Zero3, tnear |-> 0, tfar |-> 0, mask |-> 0,
      geomID |-> RTC_INVALID_GEOMETRY_ID, interp |-> Zero3 ]

(* makeRay of main.cpp (ray mask 0). *)
makeRay(org, dir) ==
    [ org |-> org, dir |-> dir, tnear |-> 0, tfar |-> FLT_MAX, mask |-> 0,
      geomID |-> RTC_INVALID_GEOMETRY_ID, interp |-> Zero3 ]

(* makeRay of Renderer.cpp (ray mask -1). *)
makeRayR(org, dir) == [makeRay(org, dir) EXCEPT !.mask = -1]

(***************************************************************************)
(* Camera rays.                                                            *)
(***************************************************************************)
PixelNDC(i, n) == ((2 * i + 1) * One) \div (2 * n)

(* main.cpp lines 172-205. *)
MainCameraRay(px, py, w, h) ==
    LET aspectRatio == Div(w, h)
        Px == Mul(2 * PixelNDC(px, w) - One, aspectRatio)
        Py == One - 2 * PixelNDC(py, h)
        rayP == <<Px, Py, -One>>
        translation == <<0, 800, 1850>>
        rayWorldOrigin == translation
        rayPWorld == VAdd(rayP, translation)
    IN  makeRay(ToPos(rayWorldOrigin), VSub(rayPWorld, rayWorldOrigin))

makeCameraRay(px, py, w, h) ==
    LET aspectRatio == Div(w, h)
        Px == Mul(Mul(2 * PixelNDC(px, w) - One, aspectRatio), Fov)
        Py == Mul(One - 2 * PixelNDC(py, h), Fov)
        rayP == <<Px, Py, -One>>
        translation == <<0, 800, 4500>>
        rayWorldOrigin == translation
        rayPWorld == VAdd(rayP, translation)
    IN  makeRayR(ToPos(rayWorldOrigin), VSub(rayPWorld, rayWorldOrigin))

(***************************************************************************)
(* Materials.                                                              *)
(***************************************************************************)
Material(c) == [DiffuseColor |-> c]

MaterialTables ==
    { << Material(<<1000, 1000, 1000>>), Material(<<1000, 500, 0>>) >>,
      << Material(<<500, 500, 500>>), Material(<<0, 0, 0>>) >> }

ValidId(mats, id) == id >= 0 /\ id < Len(mats)

MaterialAt(mats, id) == mats[id + 1].DiffuseColor

(* What a read past the end of the material vector can yield. *)
GarbageColours == { <<1000, 250, 750>> }

(***************************************************************************)
(* Trace (Renderer.cpp lines 17-77) as a step function on the state of one *)
(* call: the locals color, mask, gen and bounce and the ray it mutates.    *)
(* queries, drawn, masks, missed, nan, bad and last record what the call   *)
(* did (history only; the code has no such fields).                        *)
(***************************************************************************)
Background == <<500, 500, 500>>

One3 == <<One, One, One>>

NoLast == [hitPoint |-> Zero3, newdir |-> Zero3, normal |-> Zero3, diffuse |-> Zero3, cosine |-> 0]

NoEst ==
    [ outgoing |-> Zero3, hit |-> FALSE, occluded |-> FALSE, P |-> Zero3,
      N |-> Zero3, Wi |-> Zero3, diffuse |-> Zero3, shadow |-> NoRay ]

IdleCall(g) ==
    [ pc |-> "idle", px |-> <<0, 0>>, bounce |-> 0, color |-> Zero3, mask |-> Zero3,
      ray |-> NoRay, gen |-> g, queries |-> 0, drawn |-> <<>>, masks |-> <<>>,
      missed |-> FALSE, nan |-> FALSE, bad |-> FALSE, result |-> Zero3,
      last |-> NoLast, est |-> NoEst ]

(* Lines 19-23: a fresh engine, color 0 and mask 1. *)
TraceStart(ray, pixel, g) ==
    [ IdleCall(SeedEngine(g)) EXCEPT
        !.pc = "loop", !.px = pixel, !.mask = One3, !.ray = ray ]

LoopContinues_OneMore(bounce) == bounce <= MaxBounces

(* Line 25: bounce < 8. *)
LoopContinues(bounce) == bounce < MaxBounces

MissResult_Unweighted(color, mask) == VAdd(color, Background)

(* Line 30: color += mask * vec3{0.5, 0.5, 0.5}. *)
MissResult(color, mask) == VAdd(color, VMul(mask, Background))

BankAndAttenuate_MaskFirst(color, mask, diffuse, cosine) ==
    LET m == VScale(VMul(mask, diffuse), cosine)
    IN  [color |-> VAdd(color, m), mask |-> m]

(* Lines 50-56: color += mask; mask *= DiffuseColor; mask *= dot(newdir, normal). *)
BankAndAttenuate(color, mask, diffuse, cosine) ==
    [ color |-> VAdd(color, mask),
      mask  |-> VScale(VMul(mask, diffuse), cosine) ]

(* Lines 59-61: org + tfar * dir + EPSILON, component by component. *)
NextOrigin(ray) == VAdd(PointAt(ray), <<EPSILON, EPSILON, EPSILON>>)

(* Lines 28-31: the query q reported no hit. *)
AfterMiss(st, q) ==
    [ st EXCEPT
        !.pc = "returned", !.ray = q, !.queries = st.queries + 1, !.missed = TRUE,
        !.color = MissResult(st.color, st.mask),
        !.result = MissResult(st.color, st.mask) ]

(* Lines 33-73: the query q reported a hit on a surface of colour diffuse. *)
AfterHit(st, q, diffuse) ==
    LET normal == rtcInterpolate2(q)
        d1     == distr(st.gen)
        d2     == distr(st.gen + 1)
        s      == SampleDirection(normal, d1, d2)
        acc    == BankAndAttenuate(st.color, st.mask, diffuse, s.cosine)
    IN  [ st EXCEPT
            !.bounce = st.bounce + 1,
            !.queries = st.queries + 1,
            !.gen = st.gen + 2,
            !.drawn = st.drawn \o <<d1, d2>>,
            !.masks = Append(st.masks, st.mask),
            !.nan = st.nan \/ s.nan,
            !.color = acc.color,
            !.mask = acc.mask,
            !.last = [ hitPoint |-> PointAt(q), newdir |-> s.newdir, normal |-> normal,
                       diffuse |-> diffuse, cosine |-> s.cosine ],
            !.ray = [ q EXCEPT !.org = NextOrigin(q), !.dir = s.newdir, !.tnear = 0,
                               !.tfar = FLT_MAX, !.mask = 0,
                               !.geomID = RTC_INVALID_GEOMETRY_ID ] ]

(* Line 76: the loop ran out; return color. *)
AfterCap(st) == [st EXCEPT !.pc = "returned", !.result = st.color]

TraceStep(sc, mats, st) ==
    IF ~LoopContinues(st.bounce)
    THEN AfterCap(st)
    ELSE LET q == rtcIntersect(sc, st.ray)
         IN  IF q.geomID = RTC_INVALID_GEOMETRY_ID
             THEN AfterMiss(st, q)
             ELSE AfterHit(st, q, MaterialAt(mats, q.geomID))

RECURSIVE TraceRun(_, _, _)
TraceRun(sc, mats, st) ==
    IF st.pc = "returned" THEN st ELSE TraceRun(sc, mats, TraceStep(sc, mats, st))

(* Trace as a function of the scene, the materials and the ray alone. *)
Trace(sc, mats, ray) == TraceRun(sc, mats, TraceStart(ray, <<0, 0>>, 0)).result

(***************************************************************************)
(* The direct-lighting estimator (Renderer.cpp lines 79-169).              *)
(***************************************************************************)
WorldGetBackground == Zero3

Q == <<0, 1400, 0>>

Power == One3

(* pow(c, gamma) with gamma = 2.2f, for the channel values of MaterialTables *)
(* and GarbageColours.                                                      *)
PowGamma(c) ==
    CASE c = 0 -> 0 [] c = 250 -> 47 [] c = 500 -> 218 [] c = 750 -> 531 [] c = 1000 -> 1000

shade(diffuse) ==
    VDiv(<<PowGamma(diffuse[1]), PowGamma(diffuse[2]), PowGamma(diffuse[3])>>, PI)

Visible_Inverted(geomID) == IF geomID # 0 THEN 0 ELSE One

(* Line 122: shadowRay.geomID ? 1.0f : 0.0f. *)
Visible(geomID) == IF geomID # 0 THEN One ELSE 0

ShadowRay(o, d) == [makeRayR(ToPos(o), d) EXCEPT !.tnear = ShadowTNear, !.tfar = One]

visibility(sc, o, d) == Visible(rtcOccluded(sc, ShadowRay(o, d)).geomID)

(* Lines 154-166, for the ray q that recorded a hit on a surface of colour diffuse. *)
Estimate(sc, diffuse, q) ==
    LET P        == FromPos(PointAt(q))
        toLight  == VSub(Q, P)
        Wi       == normalize(toLight)
        N        == normalize(rtcInterpolate2(q))
        distance == length(toLight)
        d2       == Mul(distance, distance)
        Li       == IF d2 = 0 THEN <<FLT_MAX, FLT_MAX, FLT_MAX>> ELSE VDiv(Power, d2)
        lit      == VScale(VMul(Li, shade(diffuse)), Max(0, dot(N, Wi)))
    IN  [ outgoing |-> VScale(lit, visibility(sc, P, toLight)),
          hit      |-> TRUE,
          occluded |-> InRange(sc, ShadowRay(P, toLight)),
          P        |-> P,
          N        |-> N,
          Wi       |-> Wi,
          diffuse  |-> diffuse,
          shadow   |-> ShadowRay(P, toLight) ]

pathTraceRay(sc, mats, ray) ==
    LET q == rtcIntersect(sc, ray)
    IN  IF q.geomID # RTC_INVALID_GEOMETRY_ID
        THEN Estimate(sc, MaterialAt(mats, q.geomID), q)
        ELSE [NoEst EXCEPT !.outgoing = WorldGetBackground]

(* traceRay (lines 127-147) has the body of pathTraceRay. *)
traceRay(sc, mats, ray) ==
    LET q == rtcIntersect(sc, ray)
    IN  IF q.geomID # RTC_INVALID_GEOMETRY_ID
        THEN Estimate(sc, MaterialAt(mats, q.geomID), q)
        ELSE [NoEst EXCEPT !.outgoing = WorldGetBackground]

(***************************************************************************)
(* The pixel buffer.  SetPixel(x, y, r, g, b) stores one colour; n counts  *)
(* the stores an entry received, from is the pixel whose camera ray gave   *)
(* the colour, drawn the uniform draws its trace consumed.  The buffer is  *)
(* modelled one row and one column past the largest image so that a store  *)
(* outside width x height is seen.                                         *)
(***************************************************************************)
Coords == (0 .. MaxWidth) \X (0 .. MaxHeight)

NoPixel == [n |-> 0, value |-> Zero3, from |-> <<-1, -1>>, drawn |-> <<>>]

(* PPMImage::SetPixel(x, y, r, g, b): one store into the entry at. *)
SetPixel(buf, at, call) ==
    [ buf EXCEPT ![at] =
        [ n |-> buf[at].n + 1, value |-> call.result, from |-> call.px,
          drawn |-> call.drawn ] ]

StoreAt_Transposed(px, py) == <<py, px>>

(* The coordinates the drivers pass: SetPixel(x, y, ...). *)
StoreAt(px, py) == <<px, py>>

(***************************************************************************)
(* State.                                                                  *)
(***************************************************************************)
VARIABLES
    scene,      \* the committed scene: Keys -> answer of the query port
    Materials,  \* the material table
    width,      \* image width
    height,     \* image height
    driver,     \* "main": the pixel loop of main (Trace); "traceImage"
    x,          \* loop variable x of the pixel loop
    y,          \* loop variable y of the pixel loop
    tr,         \* per thread of control: the integrator call in flight
    buffer,     \* the pixel buffer
    pending,    \* pixels no camera ray was generated for yet
    smp         \* the hemisphere sampler alone: inputs and result

vars == <<scene, Materials, width, height, driver, x, y, tr, buffer, pending, smp>>

MainThread == "w1"

Workers == {"w1", "w2"}

Drivers == {"main", "traceImage"}

Pixels(w, h) == (0 .. (w - 1)) \X (0 .. (h - 1))

NoSample == [axis |-> Zero3, uRaw |-> Zero3, nan |-> FALSE, newdir |-> Zero3, cosine |-> 0]

SamplerOff == [stage |-> "off", normal |-> Zero3, d1 |-> 0, d2 |-> 0, out |-> NoSample]

SampleNormals ==
    { <<0, 1000, 0>>, <<0, -1000, 0>>, <<1000, 0, 0>>, <<-1000, 0, 0>>,
      <<0, 0, 1000>>, <<0, 0, -1000>>, <<600, 800, 0>>, <<0, 600, 800>>,
      <<800, 0, 600>>, <<-600, 0, -800>>, <<100, 995, 0>>,
      <<0, 500, 0>>, <<2000, 0, 0>>, <<100, 0, 0>>, <<50, 0, 0>> }

InitWith(responses) ==
    /\ scene \in [Keys -> responses]
    /\ Materials \in MaterialTables
    /\ width \in 1 .. MaxWidth
    /\ height \in 1 .. MaxHeight
    /\ driver \in Drivers
    /\ x = 0
    /\ y = 0
    /\ tr = [w \in Workers |-> IdleCall(0)]
    /\ buffer = [c \in Coords |-> NoPixel]
    /\ pending = Pixels(width, height)
    /\ smp = SamplerOff

Init == InitWith(Responses)

InitUnchecked == InitWith(UncheckedResponses)

InitSample ==
    /\ scene = [k \in Keys |-> NoHit]
    /\ Materials \in MaterialTables
    /\ width = 1
    /\ height = 1
    /\ driver = "main"
    /\ x = 0
    /\ y = 0
    /\ tr = [w \in Workers |-> IdleCall(0)]
    /\ buffer = [c \in Coords |-> NoPixel]
    /\ pending = {}
    /\ smp \in [ stage : {"in"}, normal : SampleNormals, d1 : Uniforms, d2 : Uniforms,
                 out : {NoSample} ]

(***************************************************************************)
(* The steps of one Trace call on thread w.                                *)
(***************************************************************************)
Query(w) == rtcIntersect(scene, tr[w].ray)

TraceMiss(w) ==
    /\ tr[w].pc = "loop"
    /\ LoopContinues(tr[w].bounce)
    /\ Query(w).geomID = RTC_INVALID_GEOMETRY_ID
    /\ tr' = [tr EXCEPT ![w] = AfterMiss(tr[w], Query(w))]
    /\ UNCHANGED <<scene, Materials, width, height, driver, x, y, buffer, pending, smp>>

TraceHit(w) ==
    /\ tr[w].pc = "loop"
    /\ LoopContinues(tr[w].bounce)
    /\ Query(w).geomID # RTC_INVALID_GEOMETRY_ID
    /\ ValidId(Materials, Query(w).geomID)
    /\ tr' = [tr EXCEPT ![w] = AfterHit(tr[w], Query(w), MaterialAt(Materials, Query(w).geomID))]
    /\ UNCHANGED <<scene, Materials, width, height, driver, x, y, buffer, pending, smp>>

TraceReturn(w) ==
    /\ tr[w].pc = "loop"
    /\ ~LoopContinues(tr[w].bounce)
    /\ tr' = [tr EXCEPT ![w] = AfterCap(tr[w])]
    /\ UNCHANGED <<scene, Materials, width, height, driver, x, y, buffer, pending, smp>>

(* Materials[ray.geomID] with geomID past the end of the vector is undefined *)
(* behaviour: the read yields whatever lies there and Trace goes on.         *)
TraceHitOutOfRangeReads(w) ==
    /\ tr[w].pc = "loop"
    /\ LoopContinues(tr[w].bounce)
    /\ Query(w).geomID # RTC_INVALID_GEOMETRY_ID
    /\ ~ValidId(Materials, Query(w).geomID)
    /\ \E g \in GarbageColours :
          tr' = [tr EXCEPT ![w] = [AfterHit(tr[w], Query(w), g) EXCEPT !.bad = TRUE]]
    /\ UNCHANGED <<scene, Materials, width, height, driver, x, y, buffer, pending, smp>>

(* ... or the read faults and the process dies. *)
TraceHitOutOfRangeFaults(w) ==
    /\ tr[w].pc = "loop"
    /\ LoopContinues(tr[w].bounce)
    /\ Query(w).geomID # RTC_INVALID_GEOMETRY_ID
    /\ ~ValidId(Materials, Query(w).geomID)
    /\ tr' = [tr EXCEPT ![w] = [tr[w] EXCEPT !.pc = "crashed", !.bad = TRUE,
                                             !.queries = tr[w].queries + 1]]
    /\ UNCHANGED <<scene, Materials, width, height, driver, x, y, buffer, pending, smp>>

(***************************************************************************)
(* One call of pathTraceRay on thread w for pixel p.                       *)
(***************************************************************************)
EstimateCall(w, p, e) ==
    [ IdleCall(tr[w].gen) EXCEPT
        !.pc = "returned", !.px = p, !.queries = 1, !.est = e, !.result = e.outgoing,
        !.ray = rtcIntersect(scene, makeCameraRay(p[1], p[2], width, height)) ]

PathTrace(w, p) ==
    LET ray == makeCameraRay(p[1], p[2], width, height)
        q   == rtcIntersect(scene, ray)
    IN  /\ tr[w].pc = "idle"
        /\ driver = "traceImage"
        /\ q.geomID # RTC_INVALID_GEOMETRY_ID => ValidId(Materials, q.geomID)
        /\ tr' = [tr EXCEPT ![w] = EstimateCall(w, p, pathTraceRay(scene, Materials, ray))]

PathTraceOutOfRangeReads(w, p) ==
    LET ray == makeCameraRay(p[1], p[2], width, height)
        q   == rtcIntersect(scene, ray)
    IN  /\ tr[w].pc = "idle"
        /\ driver = "traceImage"
        /\ q.geomID # RTC_INVALID_GEOMETRY_ID
        /\ ~ValidId(Materials, q.geomID)
        /\ \E g \in GarbageColours :
              tr' = [tr EXCEPT ![w] = [EstimateCall(w, p, Estimate(scene, g, q))
                                         EXCEPT !.bad = TRUE]]

PathTraceOutOfRangeFaults(w, p) ==
    LET ray == makeCameraRay(p[1], p[2], width, height)
        q   == rtcIntersect(scene, ray)
    IN  /\ tr[w].pc = "idle"
        /\ driver = "traceImage"
        /\ q.geomID # RTC_INVALID_GEOMETRY_ID
        /\ ~ValidId(Materials, q.geomID)
        /\ tr' = [tr EXCEPT ![w] = [IdleCall(tr[w].gen) EXCEPT
                                      !.pc = "crashed", !.px = p, !.bad = TRUE,
                                      !.queries = 1, !.ray = q]]

(***************************************************************************)
(* The frame drivers: the pixel loop of main (lines 184-209) and           *)
(* traceImage (lines 207-221), both on the main thread in row-major order. *)
(***************************************************************************)
InLoop == y < height /\ x < width

Advance ==
    /\ x' = IF x + 1 < width THEN x + 1 ELSE 0
    /\ y' = IF x + 1 < width THEN y ELSE y + 1

BeginPixelTrace ==
    /\ InLoop
    /\ driver = "main"
    /\ tr[MainThread].pc = "idle"
    /\ tr' = [tr EXCEPT ![MainThread] =
                TraceStart(MainCameraRay(x, y, width, height), <<x, y>>, tr[MainThread].gen)]
    /\ pending' = pending \ {<<x, y>>}
    /\ UNCHANGED <<scene, Materials, width, height, driver, x, y, buffer, smp>>

PathTracePixel ==
    /\ InLoop
    /\ PathTrace(MainThread, <<x, y>>)
    /\ pending' = pending \ {<<x, y>>}
    /\ UNCHANGED <<scene, Materials, width, height, driver, x, y, buffer, smp>>

PathTracePixelOutOfRangeReads ==
    /\ InLoop
    /\ PathTraceOutOfRangeReads(MainThread, <<x, y>>)
    /\ pending' = pending \ {<<x, y>>}
    /\ UNCHANGED <<scene, Materials, width, height, driver, x, y, buffer, smp>>

PathTracePixelOutOfRangeFaults ==
    /\ InLoop
    /\ PathTraceOutOfRangeFaults(MainThread, <<x, y>>)
    /\ pending' = pending \ {<<x, y>>}
    /\ UNCHANGED <<scene, Materials, width, height, driver, x, y, buffer, smp>>

WritePixel ==
    /\ tr[MainThread].pc = "returned"
    /\ buffer' = SetPixel(buffer, StoreAt(x, y), tr[MainThread])
    /\ tr' = [tr EXCEPT ![MainThread] = IdleCall(tr[MainThread].gen)]
    /\ Advance
    /\ UNCHANGED <<scene, Materials, width, height, driver, pending, smp>>

Next ==
    \/ BeginPixelTrace
    \/ PathTracePixel
    \/ TraceMiss(MainThread)
    \/ TraceHit(MainThread)
    \/ TraceReturn(MainThread)
    \/ WritePixel

Spec == Init /\ [][Next]_vars

NextUnchecked ==
    \/ Next
    \/ TraceHitOutOfRangeReads(MainThread)
    \/ TraceHitOutOfRangeFaults(MainThread)
    \/ PathTracePixelOutOfRangeReads
    \/ PathTracePixelOutOfRangeFaults

SpecUnchecked == InitUnchecked /\ [][NextUnchecked]_vars

(***************************************************************************)
(* The same per-pixel work handed out as work items: any idle thread takes *)
(* any pending pixel, and the threads' steps interleave.                   *)
(***************************************************************************)
TakePixelTrace(w, p) ==
    /\ p \in pending
    /\ driver = "main"
    /\ tr[w].pc = "idle"
    /\ tr' = [tr EXCEPT ![w] =
                TraceStart(MainCameraRay(p[1], p[2], width, height), p, tr[w].gen)]
    /\ pending' = pending \ {p}
    /\ UNCHANGED <<scene, Materials, width, height, driver, x, y, buffer, smp>>

TakePixelPathTrace(w, p) ==
    /\ p \in pending
    /\ PathTrace(w, p)
    /\ pending' = pending \ {p}
    /\ UNCHANGED <<scene, Materials, width, height, driver, x, y, buffer, smp>>

WriteItem(w) ==
    /\ tr[w].pc = "returned"
    /\ buffer' = SetPixel(buffer, StoreAt(tr[w].px[1], tr[w].px[2]), tr[w])
    /\ tr' = [tr EXCEPT ![w] = IdleCall(tr[w].gen)]
    /\ UNCHANGED <<scene, Materials, width, height, driver, x, y, pending, smp>>

NextAnyOrder ==
    \/ \E w \in Workers, p \in Coords : TakePixelTrace(w, p)
    \/ \E w \in Workers, p \in Coords : TakePixelPathTrace(w, p)
    \/ \E w \in Workers : TraceMiss(w)
    \/ \E w \in Workers : TraceHit(w)
    \/ \E w \in Workers : TraceReturn(w)
    \/ \E w \in Workers : WriteItem(w)

(* Work items are handed out on single-row images over three of the answers. *)
WorkItemResponses ==
    { NoHit, Hit(0, 4500, <<0, 1000, 0>>), Hit(1, 500, <<600, 800, 0>>) }

InitAnyOrder == InitWith(WorkItemResponses) /\ height = 1

SpecAnyOrder == InitAnyOrder /\ [][NextAnyOrder]_vars

(***************************************************************************)
(* The sampler on its own, over normals and draws of its whole domain.     *)
(***************************************************************************)
Sample ==
    /\ smp.stage = "in"
    /\ smp' = [smp EXCEPT !.stage = "out",
                          !.out = SampleDirection(smp.normal, smp.d1, smp.d2)]
    /\ UNCHANGED <<scene, Materials, width, height, driver, x, y, tr, buffer, pending>>

NextSample == Sample

SpecSample == InitSample /\ [][NextSample]_vars

(***************************************************************************)
(* Properties.                                                             *)
(***************************************************************************)
RECURSIVE SumV(_)
SumV(seq) == IF seq = <<>> THEN Zero3 ELSE VAdd(Head(seq), SumV(Tail(seq)))

Gray == <<500, 500, 500>>

Positive(v) ==
    /\ v[1] >= 0 /\ v[2] >= 0 /\ v[3] >= 0
    /\ v[1] > 0 \/ v[2] > 0 \/ v[3] > 0

(* C1: a Trace call never issues more than 8 nearest-hit queries nor runs   *)
(* more than 8 iterations, one query per iteration; in its loop it always   *)
(* has a step, and every step either returns or starts the next iteration,  *)
(* so it returns after at most 8; a call that every query hit returns the   *)
(* accumulated color after the 8th, whatever the mask has become.           *)
C1_BounceCap ==
    /\ [] \A w \in Workers :
            /\ tr[w].queries <= 8
            /\ tr[w].bounce <= 8
            /\ tr[w].pc = "loop" =>
                  /\ tr[w].queries = tr[w].bounce
                  /\ \/ tr[w].bounce = 8
                     \/ Query(w).geomID = RTC_INVALID_GEOMETRY_ID
                     \/ ValidId(Materials, Query(w).geomID)
            /\ (tr[w].pc = "returned" /\ driver = "main" /\ ~tr[w].missed) =>
                  /\ tr[w].bounce = 8
                  /\ tr[w].queries = 8
                  /\ tr[w].result = tr[w].color
    /\ [][ \A w \in Workers :
             (tr[w].pc = "loop" /\ tr'[w] # tr[w]) =>
                 \/ tr'[w].pc = "returned"
                 \/ /\ tr'[w].pc = "loop"
                    /\ tr'[w].bounce = tr[w].bounce + 1
                    /\ tr'[w].queries = tr[w].queries + 1 ]_vars

C1_Witness ==
    /\ tr[MainThread].pc = "returned"
    /\ driver = "main"
    /\ ~tr[MainThread].missed
    /\ tr[MainThread].queries = 8
    /\ Len(tr[MainThread].masks) = 8

(* C2: when the k-th query (k in 0..7) of a Trace call reports no hit, the  *)
(* call returns at once, with no further query and no further random draw,  *)
(* exactly color_k + mask_k * (0.5, 0.5, 0.5); for k = 0 that is the gray.   *)
C2_MissReturnsWeightedBackground ==
    [][ \A w \in Workers :
          (tr[w].pc = "loop" /\ tr'[w].pc = "returned" /\ tr'[w].missed) =>
              /\ tr[w].bounce \in 0 .. 7
              /\ tr'[w].result = VAdd(tr[w].color, VMul(tr[w].mask, Gray))
              /\ tr'[w].queries = tr[w].bounce + 1
              /\ tr'[w].bounce = tr[w].bounce
              /\ tr'[w].drawn = tr[w].drawn
              /\ Len(tr'[w].drawn) = 2 * tr[w].bounce
              /\ tr'[w].gen = tr[w].gen
              /\ tr[w].bounce = 0 => tr'[w].result = Gray ]_vars

C2_Witness ==
    /\ tr[MainThread].pc = "returned"
    /\ tr[MainThread].missed
    /\ tr[MainThread].bounce >= 2
    /\ tr[MainThread].mask # One3
    /\ tr[MainThread].mask # Zero3

(* C3: on every hit the mask held at the start of the bounce is added to    *)
(* color, and only then is the mask multiplied by the material's diffuse    *)
(* colour and by dot(newdir, normal).  So a first hit on colour C followed  *)
(* by a miss returns mask0 + (mask0 * C * cosTheta) * gray with mask0 = 1,  *)
(* and 8 hits return the sum of the 8 masks held at the start of each       *)
(* bounce, with no background term.                                         *)
C3_BankBeforeAttenuate ==
    \A w \in Workers :
        LET c == tr[w] IN
        /\ (c.pc = "loop" /\ c.bounce >= 1) =>
              /\ c.color = SumV(c.masks)
              /\ c.mask = VScale(VMul(c.masks[Len(c.masks)], c.last.diffuse), c.last.cosine)
              /\ c.last.cosine = dot(c.last.newdir, c.last.normal)
              /\ c.masks[1] = <<1000, 1000, 1000>>
        /\ (c.pc = "returned" /\ c.missed /\ c.bounce = 1) =>
              c.result = VAdd(<<1000, 1000, 1000>>,
                              VMul(VScale(VMul(<<1000, 1000, 1000>>, c.last.diffuse),
                                          c.last.cosine),
                                   Gray))
        /\ (c.pc = "returned" /\ driver = "main" /\ ~c.missed) =>
              /\ Len(c.masks) = 8
              /\ c.result = SumV(c.masks)

C3_Witness ==
    /\ tr[MainThread].pc = "returned"
    /\ tr[MainThread].missed
    /\ tr[MainThread].bounce = 1
    /\ tr[MainThread].last.diffuse = <<1000, 500, 0>>
    /\ tr[MainThread].last.cosine > 0
    /\ tr[MainThread].last.cosine < 1000

BelowLight(P) == P[1] = Q[1] /\ P[3] = Q[3] /\ P[2] < Q[2]

EstimatorAsClaimed(e) ==
    /\ ~e.hit => e.outgoing = Zero3
    /\ (e.hit /\ e.occluded) => e.outgoing = Zero3
    /\ (e.hit /\ ~e.occluded /\ BelowLight(e.P) /\ dot(e.N, e.Wi) > 0 /\ Positive(e.diffuse))
          => Positive(e.outgoing)
    /\ e.hit =>
          /\ e.shadow.org = ToPos(e.P)
          /\ e.shadow.dir = VSub(Q, e.P)
          /\ e.shadow.tnear > 0
          /\ e.shadow.tnear <= 1
          /\ e.shadow.tfar = 1000
          /\ e.occluded = ( /\ scene[RayKey(e.shadow)].hit
                            /\ scene[RayKey(e.shadow)].t >= e.shadow.tnear
                            /\ scene[RayKey(e.shadow)].t <= e.shadow.tfar )
          /\ visibility(scene, e.P, VSub(Q, e.P)) = IF e.occluded THEN 0 ELSE 1000

(* C4: the direct-lighting estimator returns zero when the camera ray hits  *)
(* nothing, zero when the occlusion query over the segment from the hit     *)
(* point to the light (from 0.001 to 1 along the unnormalised vector to     *)
(* the light) reports geometry, and a positive value when the hit point is  *)
(* directly below the light, faces it, has a non-zero colour and nothing    *)
(* occludes; the visibility factor is 0 when occluded and 1 otherwise.      *)
C4_DirectLighting ==
    \A w \in Workers :
        (tr[w].pc = "returned" /\ driver = "traceImage") =>
            /\ tr[w].result = tr[w].est.outgoing
            /\ EstimatorAsClaimed(tr[w].est)
            /\ EstimatorAsClaimed(
                   traceRay(scene, Materials,
                            makeCameraRay(tr[w].px[1], tr[w].px[2], width, height)))

C4_Witness ==
    /\ tr[MainThread].pc = "returned"
    /\ driver = "traceImage"
    /\ tr[MainThread].est.hit
    /\ ~tr[MainThread].est.occluded
    /\ BelowLight(tr[MainThread].est.P)
    /\ dot(tr[MainThread].est.N, tr[MainThread].est.Wi) > 0
    /\ Positive(tr[MainThread].est.diffuse)
    /\ Positive(tr[MainThread].result)

C4_WitnessOccluded ==
    /\ tr[MainThread].pc = "returned"
    /\ driver = "traceImage"
    /\ tr[MainThread].est.hit
    /\ tr[MainThread].est.occluded
    /\ BelowLight(tr[MainThread].est.P)

(* The integrator's result for the camera ray of pixel c. *)
PixelColour(c) ==
    IF driver = "main"
    THEN Trace(scene, Materials, MainCameraRay(c[1], c[2], width, height))
    ELSE pathTraceRay(scene, Materials, makeCameraRay(c[1], c[2], width, height)).outgoing

(* The pixels the row-major loop has completed when it stands at (x, y). *)
Completed == { c \in Pixels(width, height) : c[2] < y \/ (c[2] = y /\ c[1] < x) }

(* C5: the frame driver stores every pixel (x, y) of width x height exactly *)
(* once and none outside, and the colour stored at (x, y) is the            *)
(* integrator's result for the camera ray generated from that (x, y).       *)
(* (An entry is stored once, so its colour is compared when the loop ends.) *)
C5_EveryPixelOnce ==
    /\ \A c \in Coords :
          /\ buffer[c].n <= 1
          /\ buffer[c].n = 1 <=> c \in Completed
          /\ buffer[c].n = 1 => buffer[c].from = c
    /\ y <= height
    /\ x < width
    /\ tr[MainThread].pc \in {"loop", "returned"} => tr[MainThread].px = <<x, y>>
    /\ y = height =>
          \A c \in Pixels(width, height) :
              /\ buffer[c].n = 1
              /\ buffer[c].value = PixelColour(c)

C5_Witness ==
    /\ y = height
    /\ width = 2
    /\ height = 1
    /\ buffer[<<0, 0>>].value # buffer[<<1, 0>>].value

(* C6: for a fixed scene and material table the final pixel buffer is the   *)
(* same whatever the order or interleaving of the per-pixel work: every     *)
(* pixel holds the integrator's result for its own camera ray; every Trace  *)
(* call starts from a freshly default-seeded engine, so the k-th draw of a  *)
(* trace is the same value for every pixel.                                 *)
C6_PixelsIndependent ==
    /\ \A c \in Coords :
          /\ buffer[c].n <= 1
          /\ buffer[c].drawn = SubSeq(EngineOutput, 1, Len(buffer[c].drawn))
    /\ \A w \in Workers :
          /\ Len(tr[w].drawn) <= Len(EngineOutput)
          /\ tr[w].drawn = SubSeq(EngineOutput, 1, Len(tr[w].drawn))
          /\ tr[w].pc = "loop" => tr[w].gen = Len(tr[w].drawn)
    /\ (pending = {} /\ \A w \in Workers : tr[w].pc = "idle") =>
          \A c \in Pixels(width, height) :
              /\ buffer[c].n = 1
              /\ buffer[c].value = PixelColour(c)

C6_Witness ==
    /\ driver = "main"
    /\ buffer[<<1, 0>>].n = 1
    /\ Len(buffer[<<1, 0>>].drawn) >= 2
    /\ buffer[<<0, 0>>].n = 0
    /\ \E w \in Workers :
          /\ tr[w].pc = "loop"
          /\ tr[w].px = <<0, 0>>
          /\ tr[w].bounce >= 1
          /\ tr[w].gen >= 2

(* C7: a hit whose surface id is no index of the material table makes the   *)
(* integrator fail at once instead of reading a material and going on.      *)
C7_FailsFast ==
    \A w \in Workers : tr[w].bad => tr[w].pc = "crashed"

(* C8: for every non-zero shading normal and every pair of draws the        *)
(* sampled direction newdir satisfies dot(newdir, normal) >= 0.             *)
C8_Hemisphere ==
    (smp.stage = "out" /\ smp.normal # Zero3) =>
        /\ ~smp.out.nan
        /\ smp.out.cosine >= 0

(* C9: after a hit the next origin is the hit point displaced along the     *)
(* sampled direction: hitPoint + EPSILON * newdir.                          *)
C9_OriginAlongDirection ==
    \A w \in Workers :
        (tr[w].pc = "loop" /\ tr[w].bounce >= 1) =>
            tr[w].ray.org =
                VAdd(tr[w].last.hitPoint,
                     << (EPSILON * tr[w].last.newdir[1]) \div One,
                        (EPSILON * tr[w].last.newdir[2]) \div One,
                        (EPSILON * tr[w].last.newdir[3]) \div One >>)

IsUnit(n) == dot(n, n) = One

NearlyAlignedWithUp(n) == Abs(dot(normalize(n), WorldUp)) >= 990

====
